---- MODULE Spec2Model ----
(***************************************************************************)
(* Project management service: the project store (table "projects"), the   *)
(* SQLite repository working on it through ORM sessions, and the           *)
(* application service above it.  Every request handler is a task; a task  *)
(* is suspended at each store round trip, so one action of the model is    *)
(* the code between two round trips together with the round trip itself.   *)
(***************************************************************************)
EXTENDS Integers, Sequences, FiniteSets, TLC

\* ------------------------------------------------------------------ bounds
NumProcs == 2          \* request handlers that can be in flight together
MaxIds   == 2          \* projects created in one run (ids handed out)
MaxSkip  == 1          \* largest skip a list request asks for
MaxLimit == 2          \* largest limit a list request asks for
MaxLists == 1          \* list calls that can be between page and count together
MaxChain == 4          \* transitions a project state is led through
MaxNameLen == 102      \* characters of the longest name put to validation

Procs == 1..NumProcs

\* ------------------------------------------------------------ input values
None  == "None"                       \* Python None / SQL NULL
Names == {"", "abcd"}                 \* request names (any str is accepted)
Descs == {"d1"}                       \* request descriptions

PLANNED     == "PLANNED"
IN_PROGRESS == "IN_PROGRESS"
COMPLETED   == "COMPLETED"
CANCELLED   == "CANCELLED"
ProjectState == {PLANNED, IN_PROGRESS, COMPLETED, CANCELLED}
ReqStates == {PLANNED, IN_PROGRESS}   \* states the requests ask for

\* created_at has default=datetime.now(UTC): the call is evaluated once, when
\* the model class is defined, and every row inserted by the process gets
\* that same instant.
ImportTime == 0
CreatedAtDefault == ImportTime

VARIABLES
    rows,      \* table projects: id -> [name, description, state, created_at]
    nextId,    \* the next id uuid4 hands out (ids are never handed out twice)
    pc,        \* per task: where the handler is suspended
    loc,       \* per task: arguments and locals of the running call
    res,       \* per task: what the finished call returned or raised
    deleted,   \* ids of the rows removed by a committed DELETE
    walk,      \* a project state led through the transition policy
    check,     \* a name put before validate_project_name
    http,      \* an HTTP request on its way through endpoint and handlers
    scope      \* a call of a repository operation or of a wrapped function

store == <<rows, nextId, pc, loc, res, deleted>>
vars  == <<rows, nextId, pc, loc, res, deleted, walk, check, http, scope>>

NoProject == [none |-> TRUE]   \* None where a Project entity is expected
NoWalk == [steps |-> 0]
NoLoc == [op |-> "none"]
NoRes == [kind |-> "none"]
NoCheck == [name |-> <<>>, asked |-> FALSE]
NoHttp == [stage |-> "idle"]
NoScope == [stage |-> "idle"]

\* ------------------------------------------------------------------- store
Ids == DOMAIN rows

\* mutant: the name column carries a plain index, not a unique one
NameTaken_NoUniqueIndex(name, except) == FALSE

\* mutant: names are compared on insert only, an UPDATE is let through
NameTaken_InsertOnly(name, except) ==
    except = {} /\ \E i \in Ids : rows[i].name = name

\* mutant: the row being updated counts against its own name
NameTaken_Self(name, except) ==
    \E i \in Ids : rows[i].name = name

\* unique=True on the name column: another row holds the name
NameTaken(name, except) ==
    \E i \in Ids \ except : rows[i].name = name

\* Project(id=model.id, name=model.name, ...): the entity built from a row
Project(id) ==
    [id |-> id, name |-> rows[id].name,
     description |-> rows[id].description, state |-> rows[id].state]

\* ProjectMapper.entity_to_dto: field by field copy
entity_to_dto(entity) ==
    [id |-> entity.id, name |-> entity.name,
     description |-> entity.description, state |-> entity.state]

ProjectNotFoundError(id)     == [kind |-> "ProjectNotFoundError", id |-> id]
ProjectNameExistsError(name) == [kind |-> "ProjectNameExistsError", name |-> name]
Returned(value)              == [kind |-> "ok", value |-> value]
Raised(exception)            == [kind |-> exception]

\* what a finished call on one project keeps: the operation and the id
Finished(l) == [op |-> l.op, id |-> l.id]

\* tasks whose list call has fetched its page and not yet its count see the
\* store change under them when another task commits
Disturb(p, l) ==
    [q \in Procs |->
        IF q # p /\ pc[q] = "list_count" THEN [l[q] EXCEPT !.quiet = FALSE]
        ELSE l[q]]

Init ==
    /\ rows = <<>>
    /\ nextId = 1
    /\ pc = [p \in Procs |-> "idle"]
    /\ loc = [p \in Procs |-> NoLoc]
    /\ res = [p \in Procs |-> NoRes]
    /\ deleted = {}
    /\ walk = NoWalk
    /\ check = NoCheck
    /\ http = NoHttp
    /\ scope = NoScope

\* ------------------------------------------------------------------ create
\* mutant: the IntegrityError is raised again as it came
on_create_integrity_error_Reraise(name) == Raised("IntegrityError")

\* create_project, except IntegrityError: rollback, then the name conflict
on_create_integrity_error(name) == ProjectNameExistsError(name)

\* ProjectService.create_project -> SQLiteProjectRepository.create_project,
\* up to and including session.commit(): INSERT under the unique index on
\* name, or IntegrityError -> rollback -> ProjectNameExistsError(name).
CreateCommit(p) ==
    /\ pc[p] = "idle"
    /\ \E name \in Names, description \in Descs \cup {None}, state \in ReqStates :
         IF NameTaken(name, {})
         THEN /\ pc' = [pc EXCEPT ![p] = "done"]
              /\ loc' = [loc EXCEPT ![p] = [op |-> "create", name |-> name]]
              /\ res' = [res EXCEPT ![p] = on_create_integrity_error(name)]
              /\ UNCHANGED <<rows, nextId, deleted>>
         ELSE /\ nextId <= MaxIds
              /\ rows' = (nextId :> [name |-> name, description |-> description,
                                     state |-> state,
                                     created_at |-> CreatedAtDefault]) @@ rows
              /\ nextId' = nextId + 1
              /\ pc' = [pc EXCEPT ![p] = "create_refresh"]
              /\ loc' = Disturb(p, [loc EXCEPT ![p] =
                            [op |-> "create", name |-> name, id |-> nextId]])
              /\ UNCHANGED <<res, deleted>>

\* session.refresh(project_model) and the conversion to the entity; refresh
\* raises InvalidRequestError when the row is no longer there.
CreateRefresh(p) ==
    /\ pc[p] = "create_refresh"
    /\ pc' = [pc EXCEPT ![p] = "done"]
    /\ res' = [res EXCEPT ![p] =
                 IF loc[p].id \in Ids
                 THEN Returned(entity_to_dto(Project(loc[p].id)))
                 ELSE Raised("InvalidRequestError")]
    /\ UNCHANGED <<rows, nextId, loc, deleted>>

\* --------------------------------------------------------------------- get
\* SQLiteProjectRepository.get_project_by_id: the entity of the row with the
\* id, or None (scalar_one raises NoResultFound, which is caught)
\* mutant: the query has lost its WHERE clause and takes the first row
get_project_by_id_First(id) ==
    IF Ids = {} THEN NoProject ELSE Project(CHOOSE i \in Ids : TRUE)

get_project_by_id(id) ==
    IF id \in Ids THEN Project(id) ELSE NoProject

\* mutant: the get takes the project out of the table
GetProject_Consume(p) ==
    /\ pc[p] = "idle"
    /\ \E id \in 1..MaxIds :
         LET project == get_project_by_id(id) IN
         /\ loc' = [loc EXCEPT ![p] = [op |-> "get", id |-> id]]
         /\ res' = [res EXCEPT ![p] =
                      IF project = NoProject THEN ProjectNotFoundError(id)
                      ELSE Returned(entity_to_dto(project))]
         /\ rows' = [i \in Ids \ {id} |-> rows[i]]
    /\ pc' = [pc EXCEPT ![p] = "done"]
    /\ UNCHANGED <<nextId, deleted>>

\* ProjectService.get_project_by_id
GetProject(p) ==
    /\ pc[p] = "idle"
    /\ \E id \in 1..MaxIds :
         LET project == get_project_by_id(id) IN
         /\ loc' = [loc EXCEPT ![p] = [op |-> "get", id |-> id]]
         /\ res' = [res EXCEPT ![p] =
                      IF project = NoProject THEN ProjectNotFoundError(id)
                      ELSE Returned(entity_to_dto(project))]
    /\ pc' = [pc EXCEPT ![p] = "done"]
    /\ UNCHANGED <<rows, nextId, deleted>>

\* -------------------------------------------------------------------- list
Min(a, b) == IF a < b THEN a ELSE b

Matching(state) ==
    {i \in Ids : state = None \/ rows[i].state = state}

\* the orders in which ORDER BY created_at DESC can deliver the ids of S:
\* rows with equal created_at come in an order the store chooses
Orderings(S) ==
    {o \in [1..Cardinality(S) -> S] :
        /\ \A i, j \in 1..Cardinality(S) : i # j => o[i] # o[j]
        /\ \A i, j \in 1..Cardinality(S) :
              i < j => rows[o[i]].created_at >= rows[o[j]].created_at}

\* SQLiteProjectRepository.get_projects: the pages the query
\* SELECT .. WHERE state = :state ORDER BY created_at DESC LIMIT :limit
\* OFFSET :skip can return, as lists of entities
get_projects(skip, limit, state) ==
    {[k \in 1..(Min(skip + limit, Len(o)) - skip) |-> Project(o[skip + k])] :
        o \in Orderings(Matching(state))}

\* mutant: the count leaves the state filter out
count_projects_Unfiltered(state) == Cardinality(Ids)

\* SQLiteProjectRepository.count_projects
count_projects(state) == Cardinality(Matching(state))

\* ProjectMapper.create_list_response
create_list_response(total, skip, limit, entities) ==
    [total |-> total, skip |-> skip, limit |-> limit,
     items |-> [k \in 1..Len(entities) |-> entity_to_dto(entities[k])]]

\* ProjectService.get_projects, first round trip: the page.  The request
\* has passed ProjectListRequest (skip >= 0, 1 <= limit <= 1000).
ListPage(p) ==
    /\ pc[p] = "idle"
    /\ Cardinality({q \in Procs : pc[q] = "list_count"}) < MaxLists
    /\ \E skip \in 0..MaxSkip, limit \in 1..MaxLimit,
          state \in ReqStates \cup {None} :
         \E projects \in get_projects(skip, limit, state) :
            loc' = [loc EXCEPT ![p] =
                      [op |-> "list", skip |-> skip, limit |-> limit,
                       state |-> state, projects |-> projects,
                       quiet |-> TRUE]]
    /\ pc' = [pc EXCEPT ![p] = "list_count"]
    /\ UNCHANGED <<rows, nextId, res, deleted>>

\* ProjectService.get_projects, second round trip: the count
ListCount(p) ==
    /\ pc[p] = "list_count"
    /\ res' = [res EXCEPT ![p] =
                 Returned(create_list_response(count_projects(loc[p].state),
                             loc[p].skip, loc[p].limit, loc[p].projects))]
    /\ pc' = [pc EXCEPT ![p] = "done"]
    /\ loc' = [loc EXCEPT ![p] =
                 [op |-> "list", skip |-> loc[p].skip, limit |-> loc[p].limit,
                  state |-> loc[p].state, quiet |-> loc[p].quiet]]
    /\ UNCHANGED <<rows, nextId, deleted>>

\* ------------------------------------------------------------------ update
\* mutant: the service hands the call to the repository unchecked
UpdateCheck_Unchecked(p) ==
    /\ pc[p] = "idle"
    /\ \E id \in 1..MaxIds :
         loc' = [loc EXCEPT ![p] = [op |-> "update", id |-> id]]
    /\ pc' = [pc EXCEPT ![p] = "update_select"]
    /\ UNCHANGED <<rows, nextId, res, deleted>>

\* ProjectService.update_project, the existence check
UpdateCheck(p) ==
    /\ pc[p] = "idle"
    /\ \E id \in 1..MaxIds :
         /\ loc' = [loc EXCEPT ![p] = [op |-> "update", id |-> id]]
         /\ IF get_project_by_id(id) = NoProject
            THEN /\ res' = [res EXCEPT ![p] = ProjectNotFoundError(id)]
                 /\ pc' = [pc EXCEPT ![p] = "done"]
            ELSE /\ res' = res
                 /\ pc' = [pc EXCEPT ![p] = "update_select"]
    /\ UNCHANGED <<rows, nextId, deleted>>

Columns == {"name", "description", "state"}

\* mutant: every field of the request is assigned, None included
Dirty_Assigned(l, loaded) ==
    {col \in Columns : l[col] # loaded[col]}

\* the attribute assignments project_model.x = x after the SELECT: the
\* session's unit of work holds as dirty every column that was assigned
\* (x is not None) a value other than the one it loaded; the flush writes
\* these columns and no others
Dirty(l, loaded) ==
    {col \in Columns : l[col] # None /\ l[col] # loaded[col]}

\* SQLiteProjectRepository.update_project, the SELECT: the session loads the
\* row; NoResultFound makes the repository return None, on which the
\* service's assert fails.  The fields of update_data are read only after
\* the SELECT has returned, so the request's values are drawn here.
UpdateSelect(p) ==
    /\ pc[p] = "update_select"
    /\ IF loc[p].id \in Ids
       THEN /\ \E name \in Names \cup {None}, description \in Descs \cup {None},
                  state \in ReqStates \cup {None} :
                 LET update_data == [name |-> name, description |-> description,
                                     state |-> state] IN
                 loc' = [loc EXCEPT ![p] =
                           [op |-> "update", id |-> loc[p].id, name |-> name,
                            description |-> description, state |-> state,
                            dirty |-> Dirty(update_data, rows[loc[p].id])]]
            /\ pc' = [pc EXCEPT ![p] = "update_commit"]
            /\ res' = res
       ELSE /\ loc' = [loc EXCEPT ![p] = Finished(loc[p])]
            /\ pc' = [pc EXCEPT ![p] = "done"]
            /\ res' = [res EXCEPT ![p] = Raised("AssertionError")]
    /\ UNCHANGED <<rows, nextId, deleted>>

\* the row after UPDATE projects SET <dirty columns> WHERE id = :id
Changed(l, col) == col \in l.dirty

Written(l, row) ==
    [name        |-> IF Changed(l, "name") THEN l.name ELSE row.name,
     description |-> IF Changed(l, "description") THEN l.description
                     ELSE row.description,
     state       |-> IF Changed(l, "state") THEN l.state ELSE row.state,
     created_at  |-> row.created_at]

\* SQLiteProjectRepository.update_project, session.commit(): nothing is sent
\* when no column changed; the UPDATE finds no row (StaleDataError), breaks
\* the unique index on name (IntegrityError -> rollback ->
\* ProjectNameExistsError when name is truthy, IntegrityError otherwise), or
\* is committed.
UpdateCommit(p) ==
    /\ pc[p] = "update_commit"
    /\ LET l  == loc[p]
           id == l.id IN
       IF l.dirty = {}
       THEN /\ pc' = [pc EXCEPT ![p] = "update_refresh"]
            /\ UNCHANGED <<rows, loc, res>>
       ELSE IF id \notin Ids
       THEN /\ pc' = [pc EXCEPT ![p] = "done"]
            /\ res' = [res EXCEPT ![p] = Raised("StaleDataError")]
            /\ loc' = [loc EXCEPT ![p] = Finished(l)]
            /\ rows' = rows
       ELSE IF Changed(l, "name") /\ NameTaken(l.name, {id})
       THEN /\ pc' = [pc EXCEPT ![p] = "done"]
            /\ res' = [res EXCEPT ![p] =
                         IF l.name # "" THEN ProjectNameExistsError(l.name)
                         ELSE Raised("IntegrityError")]
            /\ loc' = [loc EXCEPT ![p] = Finished(l)]
            /\ rows' = rows
       ELSE /\ rows' = [rows EXCEPT ![id] = Written(l, rows[id])]
            /\ pc' = [pc EXCEPT ![p] = "update_refresh"]
            /\ loc' = Disturb(p, loc)
            /\ res' = res
    /\ UNCHANGED <<nextId, deleted>>

\* session.refresh(project_model) and the conversion to the entity
UpdateRefresh(p) ==
    /\ pc[p] = "update_refresh"
    /\ pc' = [pc EXCEPT ![p] = "done"]
    /\ res' = [res EXCEPT ![p] =
                 IF loc[p].id \in Ids
                 THEN Returned(entity_to_dto(Project(loc[p].id)))
                 ELSE Raised("InvalidRequestError")]
    /\ loc' = [loc EXCEPT ![p] = Finished(loc[p])]
    /\ UNCHANGED <<rows, nextId, deleted>>

\* ------------------------------------------------------------------ delete
\* ProjectService.delete_project, the existence check
DeleteCheck(p) ==
    /\ pc[p] = "idle"
    /\ \E id \in 1..MaxIds :
         /\ loc' = [loc EXCEPT ![p] = [op |-> "delete", id |-> id]]
         /\ IF get_project_by_id(id) = NoProject
            THEN /\ res' = [res EXCEPT ![p] = ProjectNotFoundError(id)]
                 /\ pc' = [pc EXCEPT ![p] = "done"]
            ELSE /\ res' = res
                 /\ pc' = [pc EXCEPT ![p] = "delete_select"]
    /\ UNCHANGED <<rows, nextId, deleted>>

\* SQLiteProjectRepository.delete_project, the SELECT: NoResultFound makes
\* the repository return False, which the service hands on
DeleteSelect(p) ==
    /\ pc[p] = "delete_select"
    /\ IF loc[p].id \in Ids
       THEN /\ pc' = [pc EXCEPT ![p] = "delete_commit"]
            /\ res' = res
       ELSE /\ pc' = [pc EXCEPT ![p] = "done"]
            /\ res' = [res EXCEPT ![p] = Returned(FALSE)]
    /\ UNCHANGED <<rows, nextId, loc, deleted>>

\* mutant: the row is kept (a soft delete that no query filters)
Removed_Soft(id) == rows

\* the table after DELETE FROM projects WHERE id = :id has been committed
Removed(id) == [i \in Ids \ {id} |-> rows[i]]

\* SQLiteProjectRepository.delete_project, session.delete and
\* session.commit(): DELETE FROM projects WHERE id = :id; a DELETE that
\* matches no row only warns, and the repository returns True
DeleteCommit(p) ==
    /\ pc[p] = "delete_commit"
    /\ LET id == loc[p].id IN
       /\ rows' = Removed(id)
       /\ deleted' = IF id \in Ids THEN deleted \cup {id} ELSE deleted
       /\ loc' = IF id \in Ids THEN Disturb(p, loc) ELSE loc
    /\ pc' = [pc EXCEPT ![p] = "done"]
    /\ res' = [res EXCEPT ![p] = Returned(TRUE)]
    /\ UNCHANGED nextId

\* the handler has answered; the task is free for the next request
Return(p) ==
    /\ pc[p] = "done"
    /\ pc' = [pc EXCEPT ![p] = "idle"]
    /\ loc' = [loc EXCEPT ![p] = NoLoc]
    /\ res' = [res EXCEPT ![p] = NoRes]
    /\ UNCHANGED <<rows, nextId, deleted>>

\* a step of the handler of task p
Step(p) ==
    \/ CreateCommit(p)
    \/ CreateRefresh(p)
    \/ GetProject(p)
    \/ ListPage(p)
    \/ ListCount(p)
    \/ UpdateCheck(p)
    \/ UpdateSelect(p)
    \/ UpdateCommit(p)
    \/ UpdateRefresh(p)
    \/ DeleteCheck(p)
    \/ DeleteSelect(p)
    \/ DeleteCommit(p)

\* Handing the answer to the client touches nothing another task reads, so
\* it is taken before any other task's next step.
Next ==
    /\ \E p \in Procs :
          \/ (\A q \in Procs : pc[q] # "done") /\ Step(p)
          \/ Return(p)
    /\ UNCHANGED <<walk, check, http, scope>>

Spec == Init /\ [][Next]_vars

\* ------------------------------------------------- two creates side by side
\* Every task serves one create request and keeps its answer.
NextCreate ==
    /\ \E p \in Procs : CreateCommit(p) \/ CreateRefresh(p)
    /\ UNCHANGED <<walk, check, http, scope>>

SpecCreate == Init /\ [][NextCreate]_vars

\* -------------------------------------------------------- transition policy
\* mutant: a completed project may be cancelled as well
allowed_transitions_CancelCompleted(current_state) ==
    CASE current_state = PLANNED     -> {IN_PROGRESS, CANCELLED}
      [] current_state = IN_PROGRESS -> {COMPLETED, CANCELLED}
      [] current_state = COMPLETED   -> {IN_PROGRESS, CANCELLED}
      [] current_state = CANCELLED   -> {PLANNED}
      [] OTHER                       -> {}

\* mutant: a cancelled project stays cancelled
allowed_transitions_CancelledFinal(current_state) ==
    CASE current_state = PLANNED     -> {IN_PROGRESS, CANCELLED}
      [] current_state = IN_PROGRESS -> {COMPLETED, CANCELLED}
      [] current_state = COMPLETED   -> {IN_PROGRESS}
      [] OTHER                       -> {}

\* is_valid_state_transition: the allow-list and the membership test
allowed_transitions(current_state) ==
    CASE current_state = PLANNED     -> {IN_PROGRESS, CANCELLED}
      [] current_state = IN_PROGRESS -> {COMPLETED, CANCELLED}
      [] current_state = COMPLETED   -> {IN_PROGRESS}
      [] current_state = CANCELLED   -> {PLANNED}
      [] OTHER                       -> {}

is_valid_state_transition(current_state, new_state) ==
    new_state \in allowed_transitions(current_state)

\* A project state is led through the policy: each request for a new state is
\* put to is_valid_state_transition and followed when the answer is true.
InitPolicy ==
    /\ rows = <<>>
    /\ nextId = 1
    /\ pc = [p \in Procs |-> "idle"]
    /\ loc = [p \in Procs |-> NoLoc]
    /\ res = [p \in Procs |-> NoRes]
    /\ deleted = {}
    /\ \E s \in ProjectState :
         walk = [steps |-> 0, origin |-> s, current |-> s, asked |-> <<>>]
    /\ check = NoCheck
    /\ http = NoHttp
    /\ scope = NoScope

CheckTransition ==
    /\ walk.steps < MaxChain
    /\ \E new_state \in ProjectState :
         LET valid == is_valid_state_transition(walk.current, new_state) IN
         walk' = [steps   |-> IF valid THEN walk.steps + 1 ELSE walk.steps,
                  origin  |-> walk.origin,
                  current |-> IF valid THEN new_state ELSE walk.current,
                  asked   |-> <<walk.current, new_state, valid>>]
    /\ UNCHANGED <<store, check, http, scope>>

SpecPolicy == InitPolicy /\ [][CheckTransition]_vars

\* --------------------------------------------------------- name validation
PROJECT_NAME_MIN_LENGTH == 3
PROJECT_NAME_MAX_LENGTH == 100

\* the characters of a request name
Chars(name) ==
    CASE name = ""     -> <<>>
      [] name = "abcd" -> <<"a", "b", "c", "d">>

\* mutant: the limits themselves are refused
validate_project_name_Exclusive(name) ==
    Len(name) > PROJECT_NAME_MIN_LENGTH /\ Len(name) < PROJECT_NAME_MAX_LENGTH

\* entities/utils/project.py validate_project_name
validate_project_name(name) ==
    Len(name) >= PROJECT_NAME_MIN_LENGTH /\ Len(name) <= PROJECT_NAME_MAX_LENGTH

\* a name of any length up to MaxNameLen is put before the function
InitValidate ==
    /\ rows = <<>>
    /\ nextId = 1
    /\ pc = [p \in Procs |-> "idle"]
    /\ loc = [p \in Procs |-> NoLoc]
    /\ res = [p \in Procs |-> NoRes]
    /\ deleted = {}
    /\ walk = NoWalk
    /\ http = NoHttp
    /\ scope = NoScope
    /\ \E n \in 0..MaxNameLen :
         check = [name |-> [k \in 1..n |-> "a"], asked |-> FALSE]

ValidateName ==
    /\ ~check.asked
    /\ check' = [name |-> check.name, asked |-> TRUE,
                 valid |-> validate_project_name(check.name)]
    /\ UNCHANGED <<store, walk, http, scope>>

SpecValidate == InitValidate /\ [][ValidateName]_vars

\* ---------------------------------------------------------------- HTTP layer
\* A request goes through FastAPI's request validation, the body of the
\* endpoint (a try statement around the service call) and, when something is
\* raised, the application's exception handlers.
Endpoints ==
    {"create_project", "get_project", "list_projects", "update_project",
     "delete_project"}

ListSkips  == {-1, 0, 1}              \* query parameter skip (any int)
ListLimits == {0, 1, 1000, 1001}      \* query parameter limit (any int)

\* what the awaited service call of an endpoint can end with
Raisable ==
    {"ProjectNotFoundError", "ProjectNameExistsError",
     "InvalidProjectStateError", "DatabaseConnectionError",
     "DatabaseQueryError", "IntegrityError", "CancelledError"}

\* mutant: CancelledError derives from Exception (as before Python 3.8)
IsException_All(exc) == TRUE

\* the class hierarchy: asyncio.CancelledError derives from BaseException,
\* every other class here from Exception
IsException(exc) == exc # "CancelledError"

HTTPException(status_code) ==
    [exception |-> "HTTPException", status_code |-> status_code]

\* the except clauses of an endpoint that name their classes
Caught(endpoint) ==
    CASE endpoint = "create_project" -> {<<"ProjectNameExistsError", 409>>}
      [] endpoint = "get_project"    -> {<<"ProjectNotFoundError", 404>>}
      [] endpoint = "list_projects"  -> {<<"InvalidProjectStateError", 400>>}
      [] endpoint = "update_project" -> {<<"ProjectNotFoundError", 404>>,
                                         <<"ProjectNameExistsError", 409>>,
                                         <<"InvalidProjectStateError", 400>>}
      [] endpoint = "delete_project" -> {<<"ProjectNotFoundError", 404>>}

\* what leaves the try statement of the endpoint when exc is raised in it
endpoint_except(endpoint, exc) ==
    IF \E c \in Caught(endpoint) : c[1] = exc
    THEN HTTPException((CHOOSE c \in Caught(endpoint) : c[1] = exc)[2])
    ELSE IF IsException(exc) THEN HTTPException(500)
    ELSE [exception |-> exc]

\* status_code of the route decorators
success_status(endpoint) ==
    CASE endpoint = "create_project" -> 201
      [] endpoint = "delete_project" -> 204
      [] OTHER                       -> 200

\* ProjectListRequest: skip ge=0, limit ge=1 le=1000
ProjectListRequest_valid(skip, limit) ==
    skip >= 0 /\ limit >= 1 /\ limit <= 1000

Answer(status, propagated) == [status |-> status, propagated |-> propagated]

\* general_exception_handler: CancelledError is raised again, anything else is
\* answered with 500
general_exception_handler(exc) ==
    IF exc = "CancelledError" THEN Answer(None, exc) ELSE Answer(500, None)

\* the handlers registered by setup_error_handlers and main.py, looked up by
\* the class of the exception; the exception middleware only sees instances
\* of Exception
exception_handlers(e) ==
    CASE e.exception = "HTTPException"            -> Answer(e.status_code, None)
      [] e.exception = "RequestValidationError"   -> Answer(422, None)
      [] e.exception = "ProjectNotFoundError"     -> Answer(404, None)
      [] e.exception = "ProjectNameExistsError"   -> Answer(409, None)
      [] e.exception = "InvalidProjectStateError" -> Answer(400, None)
      [] e.exception = "DatabaseConnectionError"  -> Answer(503, None)
      [] e.exception = "DatabaseQueryError"       -> Answer(500, None)
      [] OTHER -> IF IsException(e.exception)
                  THEN general_exception_handler(e.exception)
                  ELSE Answer(None, e.exception)

InitHttp ==
    /\ rows = <<>>
    /\ nextId = 1
    /\ pc = [p \in Procs |-> "idle"]
    /\ loc = [p \in Procs |-> NoLoc]
    /\ res = [p \in Procs |-> NoRes]
    /\ deleted = {}
    /\ walk = NoWalk
    /\ check = NoCheck
    /\ http = NoHttp
    /\ scope = NoScope

\* a request for one of the five routes arrives; typed says whether its
\* path, query and body have the declared types
Receive ==
    /\ http.stage = "idle"
    /\ \E endpoint \in Endpoints, typed \in BOOLEAN,
          skip \in ListSkips, limit \in ListLimits :
         /\ endpoint # "list_projects" => (skip = 0 /\ limit = 1)
         /\ http' = [stage |-> "received", endpoint |-> endpoint,
                     typed |-> typed, skip |-> skip, limit |-> limit,
                     called |-> FALSE, raised |-> None]
    /\ UNCHANGED <<store, walk, check, scope>>

\* FastAPI's request validation: RequestValidationError for an ill-typed
\* request, otherwise the endpoint is called
Validate ==
    /\ http.stage = "received"
    /\ http' = IF http.typed
               THEN [http EXCEPT !.stage = "endpoint"]
               ELSE [stage |-> "raised", endpoint |-> http.endpoint,
                     typed |-> http.typed, skip |-> http.skip,
                     limit |-> http.limit, called |-> FALSE,
                     raised |-> "RequestValidationError",
                     exc |-> [exception |-> "RequestValidationError"]]
    /\ UNCHANGED <<store, walk, check, scope>>

\* the body of the endpoint: list_projects builds its ProjectListRequest
\* inside the try statement, then every endpoint awaits its service call
Endpoint ==
    /\ http.stage = "endpoint"
    /\ LET e == http.endpoint
           Raise(called, exc) ==
               [stage |-> "raised", endpoint |-> e, typed |-> http.typed,
                skip |-> http.skip, limit |-> http.limit, called |-> called,
                raised |-> exc, exc |-> endpoint_except(e, exc)]
       IN
       IF e = "list_projects" /\ ~ProjectListRequest_valid(http.skip, http.limit)
       THEN http' = Raise(FALSE, "ValidationError")
       ELSE \/ http' = [stage |-> "answered", endpoint |-> e,
                        typed |-> http.typed, skip |-> http.skip,
                        limit |-> http.limit, called |-> TRUE, raised |-> None,
                        answer |-> Answer(success_status(e), None)]
            \/ \E exc \in Raisable : http' = Raise(TRUE, exc)
    /\ UNCHANGED <<store, walk, check, scope>>

\* the exception that left the endpoint or the request validation meets the
\* application's exception handlers
Handle ==
    /\ http.stage = "raised"
    /\ http' = [stage |-> "answered", endpoint |-> http.endpoint,
                typed |-> http.typed, skip |-> http.skip, limit |-> http.limit,
                called |-> http.called, raised |-> http.raised,
                answer |-> exception_handlers(http.exc)]
    /\ UNCHANGED <<store, walk, check, scope>>

\* the response is sent, or the exception has left the application
Respond ==
    /\ http.stage = "answered"
    /\ http' = NoHttp
    /\ UNCHANGED <<store, walk, check, scope>>

NextHttp == Receive \/ Validate \/ Endpoint \/ Handle \/ Respond

SpecHttp == InitHttp /\ [][NextHttp]_vars

\* --------------------------------------------------- sessions and wrappers
\* A call of one of the six repository operations, or of a function wrapped
\* by with_db_transaction or with_query_timeout, followed from the
\* acquisition of its session to its end.  Every await can raise.
QUERY_TIMEOUT == 30

RepositoryOperations ==
    {"create_project", "get_project_by_id", "get_projects", "update_project",
     "delete_project", "count_projects"}
Units == RepositoryOperations \cup {"with_db_transaction", "with_query_timeout"}

Values  == {"v1", "v2"}               \* what a wrapped function returns
Elapsed == {0, QUERY_TIMEOUT, QUERY_TIMEOUT + 1}    \* seconds a call takes

\* what an await can raise: classes derived from Exception, and the
\* cancellation of the task
Failures ==
    {"IntegrityError", "NoResultFound", "OperationalError", "CancelledError"}

Returns(value) == [kind |-> "returns", value |-> value]
Raises(exc)    == [kind |-> "raises", value |-> exc]
NoOutcome      == [kind |-> "none", value |-> None]

\* the awaits of a repository operation, in the order of its body
Awaits(op) ==
    CASE op = "create_project"    -> <<"commit", "refresh">>
      [] op = "get_project_by_id" -> <<"execute">>
      [] op = "get_projects"      -> <<"execute">>
      [] op = "update_project"    -> <<"execute", "commit", "refresh">>
      [] op = "delete_project"    -> <<"execute", "delete", "commit">>
      [] op = "count_projects"    -> <<"execute">>

\* the except clauses of a repository operation: the value returned for the
\* exception ("return"), a rollback followed by a raise ("rollback"), or no
\* clause for it ("pass")
Clause(op, exc) ==
    CASE op \in {"get_project_by_id", "update_project", "delete_project"}
            /\ exc = "NoResultFound"  -> "return"
      [] op \in {"create_project", "update_project"}
            /\ exc = "IntegrityError" -> "rollback"
      [] OTHER                        -> "pass"

\* what the operation returns when all its awaits have succeeded, and what
\* its clause for NoResultFound returns
Result(op) == IF op = "delete_project" THEN TRUE ELSE "v1"
Absent(op) == IF op = "delete_project" THEN FALSE ELSE None

\* what the clause for IntegrityError raises
Conflict(op) ==
    IF op = "create_project" THEN {"ProjectNameExistsError"}
    ELSE {"ProjectNameExistsError", "IntegrityError"}

\* mutant: delete_project takes its session without the async with block
Scoped_DeleteBare(unit) == unit \notin {"with_query_timeout", "delete_project"}

\* the unit acquires its session with `async with ... as session`
Scoped(unit) == unit # "with_query_timeout"

\* a session: open or closed, with or without a transaction in progress,
\* and the commits and rollbacks it has carried out
NoSession == [open |-> FALSE, txn |-> FALSE, commits |-> 0, rollbacks |-> 0]
Acquired  == [open |-> TRUE, txn |-> FALSE, commits |-> 0, rollbacks |-> 0]
Begun(session)      == [session EXCEPT !.txn = TRUE]
Committed(session)  == [session EXCEPT !.txn = FALSE, !.commits = @ + 1]
RolledBack(session) == [session EXCEPT !.txn = FALSE, !.rollbacks = @ + 1]

\* leaving the scope of the session: the session is closed, and a
\* transaction still in progress is rolled back
Released(session) ==
    IF session.txn THEN [RolledBack(session) EXCEPT !.open = FALSE]
    ELSE [session EXCEPT !.open = FALSE]

InitScope ==
    /\ rows = <<>>
    /\ nextId = 1
    /\ pc = [p \in Procs |-> "idle"]
    /\ loc = [p \in Procs |-> NoLoc]
    /\ res = [p \in Procs |-> NoRes]
    /\ deleted = {}
    /\ walk = NoWalk
    /\ check = NoCheck
    /\ http = NoHttp
    /\ scope = NoScope

\* the unit is called; all but with_query_timeout acquire a session
Call ==
    /\ scope.stage = "idle"
    /\ \E unit \in Units :
         scope' = [unit |-> unit,
                   stage |-> IF unit = "with_query_timeout" THEN "query"
                             ELSE IF unit = "with_db_transaction" THEN "func"
                             ELSE "body",
                   step |-> 1,
                   session |-> IF unit = "with_query_timeout" THEN NoSession
                               ELSE Acquired,
                   func |-> NoOutcome, commit |-> NoOutcome,
                   outcome |-> NoOutcome,
                   elapsed |-> 0, warned |-> FALSE]
    /\ UNCHANGED <<store, walk, check, http>>

\* what a wrapped function or an await ends with
Outcomes == {Returns(v) : v \in Values} \cup {Raises(e) : e \in Failures}

\* mutant: a call that took longer than the threshold is failed
with_query_timeout_Enforcing(func, elapsed) ==
    IF func.kind = "returns" /\ elapsed <= QUERY_TIMEOUT THEN func
    ELSE IF func.kind = "returns" \/ IsException(func.value)
    THEN Raises("DatabaseQueryError")
    ELSE func

\* with_query_timeout, the wrapper: the result as it is; DatabaseQueryError
\* for what `except Exception` catches; anything else passes
with_query_timeout(func, elapsed) ==
    IF func.kind = "returns" THEN func
    ELSE IF IsException(func.value) THEN Raises("DatabaseQueryError")
    ELSE func

\* with_query_timeout: the awaited call ends after some time
QueryEnds ==
    /\ scope.stage = "query"
    /\ \E func \in Outcomes, elapsed \in Elapsed :
         scope' = [scope EXCEPT
                     !.stage = "ended", !.func = func, !.elapsed = elapsed,
                     !.warned = (func.kind = "returns" /\ elapsed > QUERY_TIMEOUT),
                     !.outcome = with_query_timeout(func, elapsed)]
    /\ UNCHANGED <<store, walk, check, http>>

\* with_db_transaction: `result = await func(...)` ends
FuncEnds ==
    /\ scope.stage = "func"
    /\ \E func \in Outcomes :
         scope' = [scope EXCEPT
                     !.session = Begun(@), !.func = func,
                     !.stage = IF func.kind = "returns" THEN "commit"
                               ELSE IF IsException(func.value) THEN "except"
                               ELSE "exit",
                     !.outcome = IF func.kind = "returns" THEN NoOutcome
                                 ELSE func]
    /\ UNCHANGED <<store, walk, check, http>>

\* with_db_transaction: `await session.commit()` succeeds or raises
TransactionCommit ==
    /\ scope.stage = "commit"
    /\ \/ scope' = [scope EXCEPT
                      !.session = Committed(@), !.commit = Returns(None),
                      !.stage = "exit", !.outcome = scope.func]
       \/ \E e \in Failures :
            scope' = [scope EXCEPT
                        !.commit = Raises(e),
                        !.stage = IF IsException(e) THEN "except" ELSE "exit",
                        !.outcome = Raises(e)]
    /\ UNCHANGED <<store, walk, check, http>>

\* an await of a repository operation succeeds or raises; what is raised
\* meets the except clauses of the operation
RepositoryAwait ==
    /\ scope.stage = "body"
    /\ LET op == scope.unit
           a  == Awaits(op)[scope.step]
       IN
       \/ scope' = [scope EXCEPT
                      !.session = IF a = "commit" THEN Committed(@)
                                  ELSE Begun(@),
                      !.step = @ + 1,
                      !.stage = IF scope.step = Len(Awaits(op)) THEN "exit"
                                ELSE "body",
                      !.outcome = IF scope.step = Len(Awaits(op))
                                  THEN Returns(Result(op)) ELSE NoOutcome]
       \/ \E e \in Failures :
            CASE Clause(op, e) = "return" ->
                   scope' = [scope EXCEPT !.session = Begun(@), !.stage = "exit",
                                          !.outcome = Returns(Absent(op))]
              [] Clause(op, e) = "rollback" ->
                   \E c \in Conflict(op) :
                      scope' = [scope EXCEPT !.session = Begun(@),
                                             !.stage = "except",
                                             !.outcome = Raises(c)]
              [] OTHER ->
                   scope' = [scope EXCEPT !.session = Begun(@), !.stage = "exit",
                                          !.outcome = Raises(e)]
    /\ UNCHANGED <<store, walk, check, http>>

\* mutant: the handler commits what the failed call left behind
on_exception_Commit(session) == Committed(session)

\* `await session.rollback()` in an except clause
on_exception(session) == RolledBack(session)

\* the except clause that rolls back: with_db_transaction's `except
\* Exception`, and the IntegrityError clauses of create and update; the
\* exception is raised once the rollback is done
Except ==
    /\ scope.stage = "except"
    /\ scope' = [scope EXCEPT !.session = on_exception(@), !.stage = "exit"]
    /\ UNCHANGED <<store, walk, check, http>>

\* the block of the session is left, by return or by exception
Release ==
    /\ scope.stage = "exit"
    /\ scope' = [scope EXCEPT
                   !.session = IF Scoped(scope.unit) THEN Released(@) ELSE @,
                   !.stage = "ended"]
    /\ UNCHANGED <<store, walk, check, http>>

\* the caller has the result or the exception
Forget ==
    /\ scope.stage = "ended"
    /\ scope' = NoScope
    /\ UNCHANGED <<store, walk, check, http>>

NextScope ==
    \/ Call
    \/ QueryEnds
    \/ FuncEnds
    \/ TransactionCommit
    \/ RepositoryAwait
    \/ Except
    \/ Release
    \/ Forget

SpecScope == InitScope /\ [][NextScope]_vars

\* ================================================================= claims
\* a task takes the first step of a call of the operation op
Starts(p, op) == pc[p] = "idle" /\ pc'[p] # "idle" /\ loc'[p].op = op

\* the ids in the order of creation, newest first (ids are handed out in the
\* order of the inserts)
RECURSIVE NewestFirst(_)
NewestFirst(S) ==
    IF S = {} THEN <<>>
    ELSE LET m == CHOOSE i \in S : \A j \in S : j <= i
         IN  <<m>> \o NewestFirst(S \ {m})

Filtered(state) ==
    {i \in DOMAIN rows : state = None \/ rows[i].state = state}

\* C1: every change an update makes to a stored project's state follows the
\* allowed-transition table.
C1_UpdatesFollowTable ==
    [][\A i \in DOMAIN rows \cap DOMAIN rows' :
          rows'[i].state # rows[i].state =>
             is_valid_state_transition(rows[i].state, rows'[i].state)]_vars

\* C2: no two stored projects have the same name.
C2_NamesUnique ==
    \A i, j \in DOMAIN rows : i # j => rows[i].name # rows[j].name

\* the unique index has turned a request away while two projects are stored
C2_Witness ==
    /\ Cardinality(DOMAIN rows) = 2
    /\ \E p \in Procs : pc[p] = "done" /\ res[p].kind = "ProjectNameExistsError"

TransitionTable ==
    {<<PLANNED, IN_PROGRESS>>, <<PLANNED, CANCELLED>>,
     <<IN_PROGRESS, COMPLETED>>, <<IN_PROGRESS, CANCELLED>>,
     <<COMPLETED, IN_PROGRESS>>, <<CANCELLED, PLANNED>>}

\* C3: is_valid_state_transition answers true for exactly the six pairs of
\* the table and false for the other ten, the identity pairs among them.
C3_TransitionTable ==
    walk.asked # <<>> =>
        (walk.asked[3] <=> <<walk.asked[1], walk.asked[2]>> \in TransitionTable)

\* after an accepted transition an identity pair has been turned down
C3_Witness ==
    /\ walk.steps >= 1
    /\ walk.asked # <<>>
    /\ walk.asked[1] = walk.asked[2]
    /\ walk.asked[3] = FALSE

\* C4: a create with the name of a stored project fails with
\* ProjectNameExistsError carrying the name and leaves the store as it was.
C4_CreateConflict ==
    [][\A p \in Procs :
          (Starts(p, "create")
             /\ \E i \in DOMAIN rows : rows[i].name = loc'[p].name)
          => /\ pc'[p] = "done"
             /\ res'[p] = [kind |-> "ProjectNameExistsError", name |-> loc'[p].name]
             /\ rows' = rows]_vars

\* a create has been turned away and the project with its name is stored
C4_Witness ==
    \E p \in Procs :
        /\ pc[p] = "done" /\ loc[p].op = "create"
        /\ res[p].kind = "ProjectNameExistsError"
        /\ \E i \in DOMAIN rows : rows[i].name = loc[p].name

\* the tasks that have run a create with the name
Creators(name) ==
    {p \in Procs : loc[p].op = "create" /\ loc[p].name = name}

\* C5: of the concurrent creates with one name, once all have ended, exactly
\* one has returned a project, each other has failed with the name conflict,
\* and exactly one project with the name is stored.
C5_ConcurrentCreates ==
    \A name \in Names :
        (Cardinality(Creators(name)) >= 2
           /\ \A p \in Creators(name) : pc[p] = "done")
        => /\ Cardinality({p \in Creators(name) : res[p].kind = "ok"}) = 1
           /\ \A p \in Creators(name) :
                 res[p].kind # "ok" =>
                    res[p] = [kind |-> "ProjectNameExistsError", name |-> name]
           /\ Cardinality({i \in DOMAIN rows : rows[i].name = name}) = 1

\* two creates with one name have both ended, one with a project and one
\* with the name conflict
C5_Witness ==
    \E p, q \in Procs :
        /\ p # q
        /\ loc[p].op = "create" /\ loc[q].op = "create"
        /\ loc[p].name = loc[q].name
        /\ pc[p] = "done" /\ pc[q] = "done"
        /\ res[p].kind = "ok" /\ res[q].kind = "ProjectNameExistsError"

\* C6: a committed update gives every provided field the supplied value,
\* leaves every other field and every other project as they were.
C6_PartialUpdate ==
    [][\A p \in Procs :
          (pc[p] = "update_commit" /\ pc'[p] = "update_refresh")
          => LET l == loc[p] IN
             /\ DOMAIN rows' = DOMAIN rows
             /\ \A i \in DOMAIN rows \ {l.id} : rows'[i] = rows[i]
             /\ l.id \in DOMAIN rows =>
                  \A col \in Columns :
                     rows'[l.id][col] =
                        IF l[col] # None THEN l[col] ELSE rows[l.id][col]]_vars

\* C7: getProjectById raises not-found with the id when no project has it and
\* otherwise returns the stored project's id, name, description and state.
C7_GetById ==
    [][\A p \in Procs :
          Starts(p, "get")
          => LET id == loc'[p].id IN
             /\ pc'[p] = "done"
             /\ IF id \in DOMAIN rows
                THEN res'[p] = [kind |-> "ok",
                                value |-> [id |-> id, name |-> rows[id].name,
                                           description |-> rows[id].description,
                                           state |-> rows[id].state]]
                ELSE res'[p] = [kind |-> "ProjectNotFoundError", id |-> id]]_vars

\* a get has returned the second of two stored projects
C7_Witness ==
    \E p \in Procs :
        /\ pc[p] = "done" /\ loc[p].op = "get" /\ res[p].kind = "ok"
        /\ Cardinality(DOMAIN rows) = 2
        /\ res[p].value.id = 2

\* C8: the page of a list call is the matching projects, newest first, from
\* position skip on, limit of them at most.
C8_NewestFirstPage ==
    [][\A p \in Procs :
          Starts(p, "list")
          => LET l == loc'[p]
                 o == NewestFirst(Filtered(l.state))
             IN  /\ Len(l.projects) = Min(l.skip + l.limit, Len(o))
                                        - Min(l.skip, Len(o))
                 /\ \A k \in 1..Len(l.projects) :
                       l.projects[k].id = o[l.skip + k]]_vars

\* C9: a list call that no commit came between echoes skip and limit, counts
\* the projects matching the filter, and returns at most limit items, each
\* matching the filter.
C9_ListMetadata ==
    \A p \in Procs :
        (pc[p] = "done" /\ loc[p].op = "list" /\ loc[p].quiet /\ res[p].kind = "ok")
        => LET r == res[p].value IN
           /\ r.skip = loc[p].skip
           /\ r.limit = loc[p].limit
           /\ r.total = Cardinality(Filtered(loc[p].state))
           /\ Len(r.items) <= loc[p].limit
           /\ \A k \in 1..Len(r.items) :
                 loc[p].state # None => r.items[k].state = loc[p].state

\* a filtered list call has returned one of two stored projects
C9_Witness ==
    \E p \in Procs :
        /\ pc[p] = "done" /\ loc[p].op = "list" /\ loc[p].quiet
        /\ loc[p].state # None
        /\ Len(res[p].value.items) = 1
        /\ res[p].value.total = 1
        /\ Cardinality(DOMAIN rows) = 2

\* C10: once a delete has removed a project, its id is never stored again,
\* and every get, update or delete called on it afterwards raises not-found.
C10_DeletedForGood ==
    [][/\ deleted' \cap DOMAIN rows' = {}
       /\ \A p \in Procs :
             ((Starts(p, "get") \/ Starts(p, "update") \/ Starts(p, "delete"))
                /\ loc'[p].id \in deleted)
             => /\ pc'[p] = "done"
                /\ res'[p] = [kind |-> "ProjectNotFoundError", id |-> loc'[p].id]]_vars

\* a second delete of a removed project has raised not-found after another
\* project was created
C10_Witness ==
    \E p \in Procs :
        /\ pc[p] = "done" /\ loc[p].op = "delete"
        /\ loc[p].id \in deleted
        /\ res[p].kind = "ProjectNotFoundError"
        /\ DOMAIN rows # {}

\* the project a result shows is stored under the id the result carries
ShowsStored(v) ==
    /\ v.id \in DOMAIN rows
    /\ rows[v.id].name = v.name
    /\ rows[v.id].description = v.description
    /\ rows[v.id].state = v.state

\* a get or an update returns a project under the id it was called with, and
\* a create, a get, an update or a list shows each project under the id it is
\* stored under
ResultsCarryId ==
    \A p \in Procs :
       /\ (pc[p] # "done" /\ pc'[p] = "done" /\ res'[p].kind = "ok"
             /\ loc'[p].op \in {"create", "get", "update"})
          => /\ res'[p].value.id = loc'[p].id
             /\ ShowsStored(res'[p].value)
       /\ Starts(p, "list")
          => \A k \in 1..Len(loc'[p].projects) : ShowsStored(loc'[p].projects[k])

\* no step of an update call stores or removes an id
UpdateKeepsIds ==
    \A p \in Procs :
       (pc[p] \in {"update_select", "update_commit", "update_refresh"}
          /\ pc'[p] # pc[p])
       => DOMAIN rows' = DOMAIN rows

\* a stored row changes only in the commit of an update call on its id
ChangedByUpdateOnly ==
    \A i \in DOMAIN rows \cap DOMAIN rows' :
       rows'[i] # rows[i]
       => \E p \in Procs :
             /\ pc[p] = "update_commit" /\ pc'[p] = "update_refresh"
             /\ loc[p].id = i

\* an update call that has committed a change returns the project
CommittedUpdateSucceeds ==
    \A p \in Procs :
       (pc[p] = "update_refresh" /\ pc'[p] = "done" /\ loc[p].dirty # {})
       => res'[p].kind = "ok"

\* C11: results carry the id given at creation, no update alters
\* the id of a stored row, and name, description and state change only
\* through a successful update call on the project.
C11_ChangedBySuccessfulUpdate ==
    [][/\ ResultsCarryId
       /\ UpdateKeepsIds
       /\ ChangedByUpdateOnly
       /\ CommittedUpdateSucceeds]_vars

\* what holds of it: the ids are fixed and rows change only in the commit of
\* an update call on the project, whatever the call answers afterwards
IdFixedChangedByUpdate ==
    [][ResultsCarryId /\ UpdateKeepsIds /\ ChangedByUpdateOnly]_vars

\* C12: an update whose provided name is the name of another stored project
\* fails with ProjectNameExistsError carrying that name, whatever the name,
\* and leaves the store as it was.
C12_UpdateConflict ==
    [][\A p \in Procs :
          (/\ pc[p] = "update_commit" /\ pc'[p] # "update_commit"
           /\ loc[p].id \in DOMAIN rows
           /\ loc[p].name # None
           /\ \E i \in DOMAIN rows \ {loc[p].id} : rows[i].name = loc[p].name)
          => /\ pc'[p] = "done"
             /\ res'[p] = [kind |-> "ProjectNameExistsError", name |-> loc[p].name]
             /\ rows' = rows]_vars

\* C13: every stored name has a length from 3 to 100.
C13_StoredNameLength ==
    \A i \in DOMAIN rows : validate_project_name(Chars(rows[i].name))

\* C14: validate_project_name answers true exactly for the names of 3 to 100
\* characters: it accepts the lengths 3 and 100 and refuses 0, 2 and 101.
C14_NameLengthRange ==
    check.asked =>
        LET n == Len(check.name) IN
        /\ check.valid <=> (3 <= n /\ n <= 100)
        /\ n \in {3, 100} => check.valid
        /\ n \in {0, 2, 101} => ~check.valid

\* a name of 100 characters has been accepted
C14_Witness ==
    check.asked /\ Len(check.name) = 100 /\ check.valid

\* C15: updateProject and deleteProject called with an id that is not stored
\* raise ProjectNotFoundError carrying the id, without a call of the
\* repository's update or delete, and leave the store as it was.
C15_AbsentIdNotFound ==
    [][\A p \in Procs :
          ((Starts(p, "update") \/ Starts(p, "delete"))
             /\ loc'[p].id \notin DOMAIN rows)
          => /\ pc'[p] = "done"
             /\ res'[p] = [kind |-> "ProjectNotFoundError", id |-> loc'[p].id]
             /\ rows' = rows]_vars

\* an update of an id that was never stored has raised not-found while
\* another project is stored
C15_Witness ==
    \E p \in Procs :
        /\ pc[p] = "done" /\ loc[p].op = "update"
        /\ res[p].kind = "ProjectNotFoundError"
        /\ loc[p].id \notin deleted
        /\ DOMAIN rows # {}

\* C16: the repository's delete returns true exactly when the project was
\* stored and this call has removed it, and false, raising nothing and
\* changing nothing, when no project has the id; the repository's get and
\* update answer absent for an id that is not stored (the service turns it
\* into not-found and into the failed assertion) and change nothing.
C16_RepositoryAbsence ==
    [][\A p \in Procs :
          LET id == loc'[p].id IN
          /\ (pc[p] = "delete_commit" /\ pc'[p] = "done")
             => /\ res'[p].kind = "ok"
                /\ res'[p].value = TRUE
                      <=> (id \in DOMAIN rows /\ id \notin DOMAIN rows')
          /\ (pc[p] = "delete_select" /\ pc'[p] # pc[p] /\ id \notin DOMAIN rows)
             => res'[p] = [kind |-> "ok", value |-> FALSE] /\ rows' = rows
          /\ (Starts(p, "get") /\ id \notin DOMAIN rows)
             => res'[p].kind = "ProjectNotFoundError" /\ rows' = rows
          /\ (pc[p] = "update_select" /\ pc'[p] # pc[p] /\ id \notin DOMAIN rows)
             => res'[p].kind = "AssertionError" /\ rows' = rows]_vars

\* C17: of two updates of one project that run side by side and provide the
\* same field, the later one is not turned away because of the earlier one,
\* and its commit leaves its own value in the field.
C17_LastCommitWins ==
    [][\A p, q \in Procs :
          (/\ p # q
           /\ pc[p] = "update_commit" /\ pc'[p] # pc[p]
           /\ pc[q] = "update_refresh"
           /\ loc[q].id = loc[p].id
           /\ loc[p].id \in DOMAIN rows)
          => LET id == loc[p].id
                 taken == /\ loc[p].name # None
                          /\ \E i \in DOMAIN rows \ {id} :
                                rows[i].name = loc[p].name
             IN  /\ ~taken => pc'[p] = "update_refresh"
                 /\ pc'[p] = "update_refresh"
                    => \A col \in Columns :
                          (loc[p][col] # None /\ loc[q][col] # None)
                          => rows'[id][col] = loc[p][col]]_vars

\* C18: a request during which the store connection fails with
\* DatabaseConnectionError is answered with status 503, on each of the five
\* endpoints.
C18_ConnectionFailure503 ==
    (http.stage = "answered" /\ http.raised = "DatabaseConnectionError")
    => http.answer.status = 503

\* C19: a list request with a negative skip or a limit outside 1..1000 is
\* answered with status 422 and the service is not called.
C19_ListBounds422 ==
    (/\ http.stage = "answered"
     /\ http.endpoint = "list_projects"
     /\ http.typed
     /\ (http.skip < 0 \/ http.limit < 1 \/ http.limit > 1000))
    => http.answer.status = 422 /\ ~http.called

\* C20: asyncio.CancelledError raised while a request is served leaves the
\* endpoint and the application unchanged: no catch-all turns it into an
\* HTTPException, another error or a response.
C20_CancellationPropagates ==
    /\ (http.stage = "raised" /\ http.raised = "CancelledError")
       => http.exc = [exception |-> "CancelledError"]
    /\ (http.stage = "answered" /\ http.raised = "CancelledError")
       => http.answer = [status |-> None, propagated |-> "CancelledError"]

\* the delete endpoint's service call was cancelled and the CancelledError
\* has passed the endpoint and the handlers
C20_Witness ==
    /\ http.stage = "answered"
    /\ http.endpoint = "delete_project"
    /\ http.called
    /\ http.raised = "CancelledError"
    /\ http.answer.propagated = "CancelledError"

\* C21: once the existence check of updateProject has passed, the repository
\* update does not return absent: the service's assertion never fails,
\* whatever other requests run beside the update.
C21_AssertionHolds ==
    [][\A p \in Procs :
          (pc[p] = "update_select" /\ pc'[p] # pc[p])
          => /\ pc'[p] = "update_commit"
             /\ res'[p].kind # "AssertionError"]_vars

\* C22: of two deletes of one project that have both passed the existence
\* check, neither raises not-found; the repository delete that removes the
\* row returns true, the one that finds the row gone returns false, which
\* the service hands on, and the row is removed once.
C22_DoubleDelete ==
    [][\A p \in Procs :
          (pc[p] \in {"delete_select", "delete_commit"} /\ pc'[p] = "done")
          => LET id == loc[p].id IN
             IF id \in DOMAIN rows
             THEN /\ res'[p] = [kind |-> "ok", value |-> TRUE]
                  /\ id \notin DOMAIN rows'
                  /\ id \notin deleted
             ELSE /\ res'[p] = [kind |-> "ok", value |-> FALSE]
                  /\ rows' = rows]_vars

C24_AlwaysQueryError ==
    (scope.stage = "ended" /\ scope.unit = "with_query_timeout")
    => /\ scope.func.kind = "returns" => scope.outcome = scope.func
       /\ scope.func.kind = "raises"
          => scope.outcome = [kind |-> "raises", value |-> "DatabaseQueryError"]

\* C24: with_query_timeout hands on the wrapped call's result however long
\* the call took, raises DatabaseQueryError when the wrapped call raises an
\* instance of Exception, and lets a cancellation pass unchanged.
C24_AdvisoryTimeout ==
    (scope.stage = "ended" /\ scope.unit = "with_query_timeout")
    => /\ scope.func.kind = "returns" => scope.outcome = scope.func
       /\ (scope.func.kind = "raises" /\ scope.func.value # "CancelledError")
          => scope.outcome = [kind |-> "raises", value |-> "DatabaseQueryError"]
       /\ (scope.func.kind = "raises" /\ scope.func.value = "CancelledError")
          => scope.outcome = scope.func

\* a call that took longer than the threshold has returned its result, with
\* the warning logged
C24_Witness ==
    /\ scope.stage = "ended" /\ scope.unit = "with_query_timeout"
    /\ scope.elapsed > QUERY_TIMEOUT
    /\ scope.warned
    /\ scope.outcome = [kind |-> "returns", value |-> "v2"]

\* C25: when a repository operation has ended, by return, absent or false
\* result, name conflict, other exception or cancellation, its session is
\* closed and no transaction of it is left in progress.
C25_SessionReleased ==
    (scope.stage = "ended" /\ scope.unit \in RepositoryOperations)
    => ~scope.session.open /\ ~scope.session.txn

\* update_project was cancelled after its commit, during the refresh, and
\* its session is closed
C25_Witness ==
    /\ scope.stage = "ended" /\ scope.unit = "update_project"
    /\ scope.session.commits = 1
    /\ scope.outcome = [kind |-> "raises", value |-> "CancelledError"]
    /\ ~scope.session.open

\* C26: in every result of listProjects, also one computed while other
\* requests commit, the page has at most max(0, total - skip) items.
C26_PageWithinTotal ==
    \A p \in Procs :
        (pc[p] = "done" /\ loc[p].op = "list" /\ res[p].kind = "ok")
        => LET r == res[p].value IN
           Len(r.items) <= (IF r.total > r.skip THEN r.total - r.skip ELSE 0)

\* C27: getProjectById, listProjects with its count, and every service call
\* that ends in not-found leave the table as it was.
C27_ReadsChangeNothing ==
    [][\A p \in Procs :
          /\ (Starts(p, "get") \/ Starts(p, "list")
                \/ (pc[p] = "list_count" /\ pc'[p] # pc[p]))
             => rows' = rows
          /\ (pc[p] # "done" /\ pc'[p] = "done"
                /\ res'[p].kind = "ProjectNotFoundError")
             => pc[p] = "idle" /\ rows' = rows]_vars

\* a get of a stored project has returned and both projects are stored
C27_Witness ==
    \E p \in Procs :
        /\ pc[p] = "done" /\ loc[p].op = "get" /\ res[p].kind = "ok"
        /\ res[p].value.id = 1
        /\ Cardinality(DOMAIN rows) = 2

\* C28: no update makes the description of a stored project absent once it
\* is not: an update with description None leaves the description alone.
C28_DescriptionStays ==
    [][\A i \in DOMAIN rows \cap DOMAIN rows' :
          rows[i].description # None => rows'[i].description # None]_vars

\* an update without a description has committed another field of a project
\* that has a description
C28_Witness ==
    \E p \in Procs :
        /\ pc[p] = "update_refresh"
        /\ loc[p].description = None
        /\ loc[p].dirty # {}
        /\ loc[p].id \in DOMAIN rows
        /\ rows[loc[p].id].description # None

\* C29: a name is reserved only while a stored project carries it: a create
\* with a name no stored project carries succeeds, and so does an update
\* whose provided name no other stored project carries, the project's own
\* current name included.
C29_NamesFreed ==
    [][\A p \in Procs :
          /\ (Starts(p, "create")
                /\ \A i \in DOMAIN rows : rows[i].name # loc'[p].name)
             => /\ pc'[p] = "create_refresh"
                /\ loc'[p].id \in DOMAIN rows' \ DOMAIN rows
                /\ rows'[loc'[p].id].name = loc'[p].name
          /\ (/\ pc[p] = "update_commit" /\ pc'[p] # pc[p]
              /\ loc[p].id \in DOMAIN rows
              /\ loc[p].name # None
              /\ \A i \in DOMAIN rows \ {loc[p].id} : rows[i].name # loc[p].name)
             => pc'[p] = "update_refresh"]_vars

\* a list call still holds the page that shows a project under a name; the
\* project has been deleted since, and another project is stored under
\* that name
C29_Witness ==
    \E p \in Procs :
        /\ pc[p] = "list_count"
        /\ \E k \in 1..Len(loc[p].projects) :
              LET shown == loc[p].projects[k] IN
              /\ shown.id \in deleted
              /\ \E i \in DOMAIN rows : rows[i].name = shown.name

\* the states that chains of at most n allowed transitions lead to from S
RECURSIVE ReachableWithin(_, _)
ReachableWithin(S, n) ==
    IF n = 0 THEN S
    ELSE ReachableWithin(S \cup UNION {allowed_transitions(s) : s \in S}, n - 1)

\* C30: from the state a project starts in, every state is reached by a
\* chain of allowed transitions, and the state it is in has an allowed
\* successor.
C30_StronglyConnected ==
    /\ ReachableWithin({walk.origin}, MaxChain) = ProjectState
    /\ \A s \in ProjectState \ {walk.origin} :
          s \in ReachableWithin(allowed_transitions(walk.origin), MaxChain)
    /\ allowed_transitions(walk.current) # {}

\* a completed project has been led back to PLANNED in three transitions
C30_Witness ==
    /\ walk.origin = COMPLETED
    /\ walk.current = PLANNED
    /\ walk.steps = 3

====
